---- MODULE Spec2Model ----
(***************************************************************************)
(* Model of the Cambly transcript tools:                                   *)
(*   cambly/scripts/format_transcript.py  (parse, merge, punctuate, main)  *)
(*   cambly/scripts/correct_english.py    (main, load_api_key, request)    *)
(*                                                                         *)
(* A Python str is a sequence of one-character strings.  Python indexes    *)
(* from 0, the sequences here from 1.                                      *)
(***************************************************************************)
EXTENDS Integers, Sequences, FiniteSets, TLC

VARIABLES
    phase,        \* position of the run that is modelled
    utterances,   \* merge_utterances: the argument
    merged,       \* merge_utterances: the list returned
    starts,       \* merge_utterances: the values taken by i, one per turn
    remerged,     \* merge_utterances applied to its own result
    text,         \* clean_text / add_punctuation: the argument
    cleaned,      \* clean_text(text)
    punctuated,   \* add_punctuation(text)
    repunctuated, \* add_punctuation(add_punctuation(text))
    blocks,       \* the (speaker, text lines) pairs written out as raw_text
    raw_text,     \* parse_transcript: the argument
    parsed,       \* parse_transcript: the list returned
    script,       \* which script's main runs
    argv,         \* sys.argv[1:]
    fs_ops,       \* file-system accesses made so far, in order
    api_calls,    \* requests sent to the text-generation API
    stdout,       \* kinds of message printed so far
    exit_code     \* process exit status, -1 while running

vars == <<phase, utterances, merged, starts, remerged, text, cleaned,
          punctuated, repunctuated, blocks, raw_text, parsed,
          script, argv, fs_ops, api_calls, stdout, exit_code>>

mergeVars == <<utterances, merged, starts, remerged>>
textVars  == <<text, cleaned, punctuated, repunctuated>>
parseVars == <<blocks, raw_text, parsed>>
mainVars  == <<script, argv, fs_ops, api_calls, stdout, exit_code>>

(***************************************************************************)
(* Bounds of the model.                                                    *)
(***************************************************************************)
MaxUtterances == 4
MaxPunctRun == 2
MaxTextLen == 4
MaxRawLines == 5
MaxArgLen == 9

(***************************************************************************)
(* Python str primitives.                                                  *)
(***************************************************************************)
UpperLetters ==
    <<"A","B","C","D","E","F","G","H","I","J","K","L","M",
      "N","O","P","Q","R","S","T","U","V","W","X","Y","Z">>

LowerLetters ==
    <<"a","b","c","d","e","f","g","h","i","j","k","l","m",
      "n","o","p","q","r","s","t","u","v","w","x","y","z">>

\* the lower-case letter of each upper-case letter, and the reverse
ToLower ==
    [c \in {UpperLetters[k] : k \in 1..26} |->
        LowerLetters[CHOOSE k \in 1..26 : UpperLetters[k] = c]]

ToUpper ==
    [c \in {LowerLetters[k] : k \in 1..26} |->
        UpperLetters[CHOOSE k \in 1..26 : LowerLetters[k] = c]]

\* str.lower() on one character
LowerChar(c) == IF c \in DOMAIN ToLower THEN ToLower[c] ELSE c

\* str.upper() on one character
UpperChar(c) == IF c \in DOMAIN ToUpper THEN ToUpper[c] ELSE c

\* str.lower()
Lower(s) == [k \in DOMAIN s |-> LowerChar(s[k])]

\* the characters str.strip() and the regex class \s treat as whitespace
Whitespace == {" ", "\t", "\n"}

\* str.lstrip(chars)
RECURSIVE LStripChars(_, _)
LStripChars(s, cs) ==
    IF s # <<>> /\ Head(s) \in cs THEN LStripChars(Tail(s), cs) ELSE s

\* str.rstrip(chars)
RECURSIVE RStripChars(_, _)
RStripChars(s, cs) ==
    IF s # <<>> /\ s[Len(s)] \in cs
    THEN RStripChars(SubSeq(s, 1, Len(s) - 1), cs)
    ELSE s

\* str.strip()
Strip(s) == RStripChars(LStripChars(s, Whitespace), Whitespace)

\* sep.join(parts)
RECURSIVE JoinWith(_, _)
JoinWith(sep, parts) ==
    IF parts = <<>> THEN <<>>
    ELSE IF Len(parts) = 1 THEN parts[1]
    ELSE parts[1] \o sep \o JoinWith(sep, Tail(parts))

\* str.endswith(suffix)
EndsWith(s, suffix) ==
    /\ Len(s) >= Len(suffix)
    /\ SubSeq(s, Len(s) - Len(suffix) + 1, Len(s)) = suffix

\* str.startswith(prefix)
StartsWith(s, prefix) ==
    /\ Len(s) >= Len(prefix)
    /\ SubSeq(s, 1, Len(prefix)) = prefix

(***************************************************************************)
(* format_transcript.py: Utterance, MINIMAL_INTERJECTIONS                  *)
(***************************************************************************)
Utterance(speaker, txt) == [speaker |-> speaker, text |-> txt]

MINIMAL_INTERJECTIONS ==
    { <<"m","m","m">>, <<"m","m">>, <<"m","h","m">>,
      <<"m","m","-","h","m","m">>, <<"m","m","h","m","m">>,
      <<"u","h","-","h","u","h">>, <<"u","h"," ","h","u","h">>,
      <<"u","h","u","h">>,
      <<"y","e","a","h">>, <<"y","e","p">>, <<"y","u","p">>,
      <<"o","k","a","y">>, <<"o","k">>, <<"r","i","g","h","t">>,
      <<"o","h">>, <<"a","h">>, <<"i"," ","s","e","e">> }

TrailingPunctuation == {".", ",", "!", "?"}

\* is_minimal_interjection with the lower() left out
is_minimal_interjection_nolower(txt) ==
    RStripChars(Strip(txt), TrailingPunctuation) \in MINIMAL_INTERJECTIONS

is_minimal_interjection(txt) ==
    RStripChars(Strip(Lower(txt)), TrailingPunctuation) \in MINIMAL_INTERJECTIONS

(***************************************************************************)
(* format_transcript.py: merge_utterances                                  *)
(***************************************************************************)
RECURSIVE MergeInner(_, _, _, _)
RECURSIVE MergeOuter(_, _, _)

\* the inner loop, appending the text of an absorbed interjection
RECURSIVE MergeInner_keep_text(_, _, _, _)
MergeInner_keep_text(us, i, j, combined_texts) ==
    IF j > Len(us) THEN [j |-> j, combined_texts |-> combined_texts]
    ELSE IF us[j].speaker = us[i].speaker
         THEN MergeInner_keep_text(us, i, j + 1, Append(combined_texts, us[j].text))
         ELSE IF is_minimal_interjection(us[j].text)
              THEN IF j + 1 <= Len(us) /\ us[j + 1].speaker = us[i].speaker
                   THEN MergeInner_keep_text(us, i, j + 1,
                                             Append(combined_texts, us[j].text))
                   ELSE [j |-> j, combined_texts |-> combined_texts]
              ELSE [j |-> j, combined_texts |-> combined_texts]

\* the inner loop, skipping every interjection without looking ahead
RECURSIVE MergeInner_no_lookahead(_, _, _, _)
MergeInner_no_lookahead(us, i, j, combined_texts) ==
    IF j > Len(us) THEN [j |-> j, combined_texts |-> combined_texts]
    ELSE IF us[j].speaker = us[i].speaker
         THEN MergeInner_no_lookahead(us, i, j + 1, Append(combined_texts, us[j].text))
         ELSE IF is_minimal_interjection(us[j].text)
              THEN MergeInner_no_lookahead(us, i, j + 1, combined_texts)
              ELSE [j |-> j, combined_texts |-> combined_texts]

\* the inner loop, skipping an interjection that ends the input
RECURSIVE MergeInner_skip_at_end(_, _, _, _)
MergeInner_skip_at_end(us, i, j, combined_texts) ==
    IF j > Len(us) THEN [j |-> j, combined_texts |-> combined_texts]
    ELSE IF us[j].speaker = us[i].speaker
         THEN MergeInner_skip_at_end(us, i, j + 1, Append(combined_texts, us[j].text))
         ELSE IF is_minimal_interjection(us[j].text)
              THEN IF j + 1 > Len(us) \/ us[j + 1].speaker = us[i].speaker
                   THEN MergeInner_skip_at_end(us, i, j + 1, combined_texts)
                   ELSE [j |-> j, combined_texts |-> combined_texts]
              ELSE [j |-> j, combined_texts |-> combined_texts]

\* the inner loop, testing for an interjection before comparing speakers
RECURSIVE MergeInner_interjection_first(_, _, _, _)
MergeInner_interjection_first(us, i, j, combined_texts) ==
    IF j > Len(us) THEN [j |-> j, combined_texts |-> combined_texts]
    ELSE IF is_minimal_interjection(us[j].text)
         THEN IF j + 1 <= Len(us) /\ us[j + 1].speaker = us[i].speaker
              THEN MergeInner_interjection_first(us, i, j + 1, combined_texts)
              ELSE [j |-> j, combined_texts |-> combined_texts]
         ELSE IF us[j].speaker = us[i].speaker
              THEN MergeInner_interjection_first(us, i, j + 1,
                                                 Append(combined_texts, us[j].text))
              ELSE [j |-> j, combined_texts |-> combined_texts]

\* The inner while loop: scan from j with the turn anchored at i; the result
\* is the j the loop stops at and the combined_texts gathered.
MergeInner(us, i, j, combined_texts) ==
    IF j > Len(us) THEN [j |-> j, combined_texts |-> combined_texts]
    ELSE IF us[j].speaker = us[i].speaker
         THEN MergeInner(us, i, j + 1, Append(combined_texts, us[j].text))
         ELSE IF is_minimal_interjection(us[j].text)
              THEN IF j + 1 <= Len(us) /\ us[j + 1].speaker = us[i].speaker
                   THEN MergeInner(us, i, j + 1, combined_texts)
                   ELSE [j |-> j, combined_texts |-> combined_texts]
              ELSE [j |-> j, combined_texts |-> combined_texts]

\* the outer loop, inserting each turn at the front of merged
MergeOuter_prepend(us, i, acc) ==
    IF i > Len(us) THEN acc
    ELSE LET r == MergeInner(us, i, i + 1, <<us[i].text>>)
             turn == Utterance(us[i].speaker, JoinWith(<<" ">>, r.combined_texts))
         IN  MergeOuter(us, r.j, <<[i |-> i, turn |-> turn]>> \o acc)

\* The outer while loop; each element of the result is the merged Utterance
\* of one turn together with the i the turn was opened at.
MergeOuter(us, i, acc) ==
    IF i > Len(us) THEN acc
    ELSE LET r == MergeInner(us, i, i + 1, <<us[i].text>>)
             turn == Utterance(us[i].speaker, JoinWith(<<" ">>, r.combined_texts))
         IN  MergeOuter(us, r.j, Append(acc, [i |-> i, turn |-> turn]))

merge_turns(us) == IF us = <<>> THEN <<>> ELSE MergeOuter(us, 1, <<>>)

merge_utterances(us) ==
    LET turns == merge_turns(us) IN [k \in DOMAIN turns |-> turns[k].turn]

merge_starts(us) ==
    LET turns == merge_turns(us) IN [k \in DOMAIN turns |-> turns[k].i]

(***************************************************************************)
(* Inputs of the merge runs.                                               *)
(***************************************************************************)
Speakers == {<<"A">>, <<"B">>, <<"C">>}

\* an interjection in mixed case with punctuation and two substantive texts
\* whose single-space join is the interjection "uh huh"
MergeTexts ==
    { <<"O","k","!">>, <<"u","h">>, <<"h","u","h">> }

\* the sequences over S of length at most n
SeqsUpTo(S, n) == UNION {[1..m -> S] : m \in 0..n}

\* every spelling of tok in upper and lower case letters
RECURSIVE CaseVariants(_)
CaseVariants(tok) ==
    IF tok = <<>> THEN {<<>>}
    ELSE {<<c>> \o rest : c \in {Head(tok), UpperChar(Head(tok))},
                          rest \in CaseVariants(Tail(tok))}

\* a token of the set in any letter case followed by a run of . , ! ?
TokenSpellings ==
    UNION { {v \o run : v \in CaseVariants(tok),
                        run \in SeqsUpTo(TrailingPunctuation, MaxPunctRun)}
            : tok \in MINIMAL_INTERJECTIONS }

\* texts close to a token: surrounding blanks, a blank before the
\* punctuation, leading punctuation, an extra letter
NearTokens ==
    { <<" ","o","k">>, <<"o","k","."," ">>, <<"o","k"," ",".">>,
      <<".","o","k">>, <<"o","k","a">>, <<"O","K","\t">>, <<>> }

\* a text t of speaker B after an utterance of A, followed by nothing
\* ("end"), by A again ("back") or by a third speaker ("third")
Interruption(t, follow) ==
    << Utterance(<<"A">>, <<"h","i">>), Utterance(<<"B">>, t) >>
    \o (IF follow = "back" THEN << Utterance(<<"A">>, <<"u","h">>) >>
        ELSE IF follow = "third" THEN << Utterance(<<"C">>, <<"u","h">>) >>
        ELSE << >>)

InterruptionInputs ==
    {Interruption(t, follow) : t \in TokenSpellings \cup NearTokens,
                               follow \in {"end", "back", "third"}}

SequenceInputs ==
    SeqsUpTo({Utterance(sp, t) : sp \in Speakers, t \in MergeTexts}, MaxUtterances)

(***************************************************************************)
(* The merge runs: merge_utterances is applied to an input, then to its    *)
(* own result.                                                             *)
(***************************************************************************)
TextIdle ==
    text = <<>> /\ cleaned = <<>> /\ punctuated = <<>> /\ repunctuated = <<>>

MergeIdle ==
    utterances = <<>> /\ merged = <<>> /\ starts = <<>> /\ remerged = <<>>

ParseIdle == blocks = <<>> /\ raw_text = <<>> /\ parsed = <<>>

MainIdle ==
    /\ script = "none" /\ argv = <<>> /\ fs_ops = <<>>
    /\ api_calls = 0 /\ stdout = <<>> /\ exit_code = -1

InitMerge ==
    /\ phase = "utterances"
    /\ utterances \in InterruptionInputs \cup SequenceInputs
    /\ merged = <<>> /\ starts = <<>> /\ remerged = <<>>
    /\ TextIdle /\ ParseIdle /\ MainIdle

\* merged = merge_utterances(utterances)
Merge ==
    /\ phase = "utterances"
    /\ merged' = merge_utterances(utterances)
    /\ starts' = merge_starts(utterances)
    /\ phase' = "merged"
    /\ UNCHANGED <<utterances, remerged, textVars, parseVars, mainVars>>

\* merge_utterances run again on the list it returned
MergeAgain ==
    /\ phase = "merged"
    /\ remerged' = merge_utterances(merged)
    /\ phase' = "remerged"
    /\ UNCHANGED <<utterances, merged, starts, textVars, parseVars, mainVars>>

NextMerge == Merge \/ MergeAgain

SpecMerge == InitMerge /\ [][NextMerge]_vars

\* the merge has returned (MergeAgain leaves utterances, merged and starts as
\* they are, so the state after it adds nothing to what holds here)
Merged == phase = "merged"

\* the input positions scanned for turn k: from its opening utterance up to
\* the utterance before the next turn's
TurnSpan(k) ==
    starts[k] .. (IF k < Len(starts) THEN starts[k + 1] - 1 ELSE Len(utterances))

\* the texts of us[lo..hi], in order
RECURSIVE AllTexts(_, _, _)
AllTexts(us, lo, hi) ==
    IF lo > hi THEN <<>> ELSE <<us[lo].text>> \o AllTexts(us, lo + 1, hi)

\* the texts of the utterances of speaker sp among us[lo..hi], in order
RECURSIVE SpeakerTexts(_, _, _, _)
SpeakerTexts(us, lo, hi, sp) ==
    IF lo > hi THEN <<>>
    ELSE (IF us[lo].speaker = sp THEN <<us[lo].text>> ELSE <<>>)
         \o SpeakerTexts(us, lo + 1, hi, sp)

SpanLo(k) == starts[k]
SpanHi(k) == IF k < Len(starts) THEN starts[k + 1] - 1 ELSE Len(utterances)

(***************************************************************************)
(* Properties of merge_utterances.                                         *)
(***************************************************************************)
\* the turn that is open when the scan reaches the last utterance
OpenTurnAtEnd ==
    CHOOSE k \in DOMAIN starts :
        /\ starts[k] < Len(utterances)
        /\ \A m \in DOMAIN starts : starts[m] < Len(utterances) => m <= k

LastUtterance == utterances[Len(utterances)]

\* each element's speaker differs from its neighbours'
Alternating(us) ==
    \A k \in 1..(Len(us) - 1) : us[k].speaker # us[k + 1].speaker

\* no minimal interjection stands between two utterances of one speaker
NoEnclosedInterjection(us) ==
    \A k \in 2..(Len(us) - 1) :
        ~ (is_minimal_interjection(us[k].text) /\ us[k - 1].speaker = us[k + 1].speaker)

\* C1 as stated: each merged turn's text is the single-space join of the raw
\* text of every utterance absorbed into the turn, absorbed interjections of
\* the other speaker included.
C1_NoTextDiscarded ==
    Merged =>
        \A k \in DOMAIN merged :
            merged[k].text = JoinWith(<<" ">>, AllTexts(utterances, SpanLo(k), SpanHi(k)))

\* C1 amended: each merged turn's text is the single-space join, in input
\* order, of the raw text of the utterances of the turn's own speaker that
\* were absorbed into the turn; the text of an absorbed interjection of
\* another speaker is skipped.
C1_OwnTextJoined ==
    Merged =>
        \A k \in DOMAIN merged :
            merged[k].text =
                JoinWith(<<" ">>, SpeakerTexts(utterances, SpanLo(k), SpanHi(k),
                                               utterances[starts[k]].speaker))

\* a turn has absorbed an interjection of another speaker between two
\* utterances of its own speaker
C1_Witness ==
    /\ Merged
    /\ \E k \in DOMAIN merged :
          /\ \E p \in TurnSpan(k) : utterances[p].speaker # merged[k].speaker
          /\ Len(SpeakerTexts(utterances, SpanLo(k), SpanHi(k), merged[k].speaker)) >= 2

\* C2 as stated: a sequence whose neighbours have different speakers is
\* returned unchanged, and merge(merge(x)) = merge(x).
C2_IdempotentAsStated ==
    /\ (Merged /\ Alternating(utterances)) => merged = utterances
    /\ phase = "remerged" => remerged = merged

\* C2 amended: a sequence whose neighbours have different speakers and in
\* which no minimal interjection stands between two utterances of one speaker
\* is returned unchanged; merge(merge(x)) = merge(x) whenever merge(x) has
\* no such interjection.
C2_FixedPoint ==
    /\ (Merged /\ Alternating(utterances) /\ NoEnclosedInterjection(utterances))
          => merged = utterances
    /\ (phase = "remerged" /\ NoEnclosedInterjection(merged)) => remerged = merged

\* merge has run twice on an alternating input of three or more utterances
\* that holds an interjection, none of them enclosed
C2_Witness ==
    /\ phase = "remerged"
    /\ Len(utterances) >= 3
    /\ Alternating(utterances)
    /\ NoEnclosedInterjection(utterances)
    /\ \E k \in DOMAIN utterances : is_minimal_interjection(utterances[k].text)

\* C3 as stated: when the last utterance's text is a minimal interjection,
\* the last merged turn consists of that utterance alone.
C3_LastInterjectionAlone ==
    (Merged /\ utterances # <<>> /\ is_minimal_interjection(LastUtterance.text))
        => /\ starts[Len(starts)] = Len(utterances)
           /\ merged[Len(merged)].text = LastUtterance.text

\* C3 amended: when the last utterance's text is a minimal interjection and
\* its speaker is not the speaker of the turn open when the scan reaches it,
\* the last merged turn consists of that utterance alone.
C3_LastInterjectionOfOtherSpeakerAlone ==
    (/\ Merged
     /\ utterances # <<>>
     /\ is_minimal_interjection(LastUtterance.text)
     /\ Len(utterances) >= 2 =>
            utterances[starts[OpenTurnAtEnd]].speaker # LastUtterance.speaker)
        => /\ starts[Len(starts)] = Len(utterances)
           /\ merged[Len(merged)] = LastUtterance

\* the input ends with an interjection of a speaker other than the one of
\* the turn that was open, and that turn had absorbed an interjection before
C3_Witness ==
    /\ Merged
    /\ Len(utterances) >= 4
    /\ is_minimal_interjection(LastUtterance.text)
    /\ utterances[starts[OpenTurnAtEnd]].speaker # LastUtterance.speaker
    /\ \E p \in TurnSpan(OpenTurnAtEnd) :
          utterances[p].speaker # utterances[starts[OpenTurnAtEnd]].speaker

\* t is a token of the set in any letter case followed by a run of . , ! ?
IsTokenSpelling(t) ==
    \E n \in 0..Len(t) :
        /\ \E tok \in MINIMAL_INTERJECTIONS :
              /\ Len(tok) = n
              /\ \A m \in 1..n : t[m] \in {tok[m], UpperChar(tok[m])}
        /\ \A m \in (n + 1)..Len(t) : t[m] \in TrailingPunctuation

\* the lower-cased, trimmed, trailing-punctuation-stripped form of t
NormalForm(t) == RStripChars(Strip(Lower(t)), TrailingPunctuation)

\* C4: every spelling of a token of the set is recognised, a text whose
\* normal form is outside the set is not, and an utterance of another
\* speaker inside a turn always has a text whose normal form is in the set.
C4_RecognitionExact ==
    /\ Merged => \A k \in DOMAIN utterances :
          /\ IsTokenSpelling(utterances[k].text)
                => is_minimal_interjection(utterances[k].text)
          /\ NormalForm(utterances[k].text) \notin MINIMAL_INTERJECTIONS
                => ~ is_minimal_interjection(utterances[k].text)
    /\ Merged =>
          \A k \in DOMAIN merged : \A p \in TurnSpan(k) :
              utterances[p].speaker # utterances[starts[k]].speaker
                  => NormalForm(utterances[p].text) \in MINIMAL_INTERJECTIONS

\* a turn has absorbed an interjection written with a capital letter and
\* trailing punctuation
C4_Witness ==
    /\ Merged
    /\ \E k \in DOMAIN merged : \E p \in TurnSpan(k) :
          LET t == utterances[p].text
          IN  /\ utterances[p].speaker # utterances[starts[k]].speaker
              /\ t # Lower(t)
              /\ t[Len(t)] \in TrailingPunctuation

\* C7: each merged turn carries the speaker of the utterance that opened
\* it, and the turns stand in the order of their opening utterances.
C7_OrderAndAttribution ==
    Merged =>
        /\ Len(merged) = Len(starts)
        /\ \A k \in DOMAIN merged :
              /\ starts[k] \in DOMAIN utterances
              /\ merged[k].speaker = utterances[starts[k]].speaker
              /\ \A p \in TurnSpan(k) :
                    utterances[p].speaker = merged[k].speaker
                    \/ is_minimal_interjection(utterances[p].text)
        /\ \A k \in 1..(Len(starts) - 1) : starts[k] < starts[k + 1]
        /\ utterances # <<>> => starts[1] = 1

\* three turns of three different speakers have been returned
C7_Witness ==
    /\ Merged
    /\ Len(merged) >= 3
    /\ Len(utterances) > Len(merged)
    /\ Cardinality({merged[k].speaker : k \in DOMAIN merged}) = 3

\* C10: adjacent turns have different speakers; a non-empty input gives at
\* least one turn and never more turns than utterances.
C10_AdjacentTurnsDiffer ==
    Merged =>
        /\ \A k \in 1..(Len(merged) - 1) : merged[k].speaker # merged[k + 1].speaker
        /\ utterances # <<>> => Len(merged) >= 1
        /\ Len(merged) <= Len(utterances)

\* a turn was closed by an interjection and at least two turns were returned
\* from more utterances than turns
C10_Witness ==
    /\ Merged
    /\ Len(merged) >= 2
    /\ Len(merged) < Len(utterances)
    /\ \E k \in 2..Len(merged) : is_minimal_interjection(utterances[starts[k]].text)

(***************************************************************************)
(* format_transcript.py: clean_text, add_punctuation                       *)
(***************************************************************************)
\* re.sub(r'\s+', ' ', text): every maximal run of whitespace becomes one blank
RECURSIVE CollapseWhitespace(_)
CollapseWhitespace(s) ==
    IF s = <<>> THEN <<>>
    ELSE IF Head(s) \in Whitespace
         THEN <<" ">> \o CollapseWhitespace(LStripChars(s, Whitespace))
         ELSE <<Head(s)>> \o CollapseWhitespace(Tail(s))

clean_text(t) == RStripChars(Strip(CollapseWhitespace(t)), {","})

TerminalPunctuation == {".", "!", "?"}

\* add_punctuation, testing the first character for terminal punctuation
add_punctuation_first_char(t) ==
    LET c == clean_text(t)
        capitalized == IF Len(c) > 1
                       THEN <<UpperChar(c[1])>> \o Tail(c)
                       ELSE [k \in DOMAIN c |-> UpperChar(c[k])]
    IN  IF c = <<>> THEN c
        ELSE IF capitalized[1] \notin TerminalPunctuation
             THEN Append(capitalized, ".")
             ELSE capitalized

add_punctuation(t) ==
    LET c == clean_text(t)
        capitalized == IF Len(c) > 1
                       THEN <<UpperChar(c[1])>> \o Tail(c)
                       ELSE [k \in DOMAIN c |-> UpperChar(c[k])]
    IN  IF c = <<>> THEN c
        ELSE IF capitalized[Len(capitalized)] \notin TerminalPunctuation
             THEN Append(capitalized, ".")
             ELSE capitalized

(***************************************************************************)
(* The text runs: clean_text and add_punctuation are applied to a text,    *)
(* then add_punctuation to its own result.                                 *)
(***************************************************************************)
TextChars == {"a", "B", " ", "\t", ",", ".", "!"}

InitText ==
    /\ phase = "text"
    /\ text \in SeqsUpTo(TextChars, MaxTextLen)
    /\ cleaned = <<>> /\ punctuated = <<>> /\ repunctuated = <<>>
    /\ MergeIdle /\ ParseIdle /\ MainIdle

\* cleaned = clean_text(text)
Clean ==
    /\ phase = "text"
    /\ cleaned' = clean_text(text)
    /\ phase' = "cleaned"
    /\ UNCHANGED <<text, punctuated, repunctuated, mergeVars, parseVars, mainVars>>

\* punctuated = add_punctuation(text)
Punctuate ==
    /\ phase = "cleaned"
    /\ punctuated' = add_punctuation(text)
    /\ phase' = "punctuated"
    /\ UNCHANGED <<text, cleaned, repunctuated, mergeVars, parseVars, mainVars>>

\* add_punctuation run again on the text it returned
PunctuateAgain ==
    /\ phase = "punctuated"
    /\ repunctuated' = add_punctuation(punctuated)
    /\ phase' = "repunctuated"
    /\ UNCHANGED <<text, cleaned, punctuated, mergeVars, parseVars, mainVars>>

NextText == Clean \/ Punctuate \/ PunctuateAgain

SpecText == InitText /\ [][NextText]_vars

\* C6: add_punctuation applied to its own result returns it unchanged, the
\* empty text is returned unchanged, and a text that already ends in . ! ?
\* after cleaning gets no further period.
C6_PunctuationIdempotent ==
    /\ phase \in {"punctuated", "repunctuated"} =>
          /\ text = <<>> => punctuated = <<>>
          /\ (cleaned # <<>> /\ cleaned[Len(cleaned)] \in TerminalPunctuation)
                => Len(punctuated) = Len(cleaned)
    /\ phase = "repunctuated" => repunctuated = punctuated

\* add_punctuation has run twice on a text that needed cleaning, a capital
\* and a period
C6_Witness ==
    /\ phase = "repunctuated"
    /\ cleaned # text
    /\ Len(cleaned) >= 2
    /\ cleaned[1] = "a"
    /\ punctuated = <<"A">> \o Tail(cleaned) \o <<".">>

\* C9 as stated: clean_text removes exactly one comma from the end of a text
\* that ends in a comma after whitespace collapsing and trimming, and leaves
\* any other text as collapsed and trimmed.
C9_OneTrailingCommaRemoved ==
    phase \in {"cleaned", "punctuated", "repunctuated"} =>
        LET w == Strip(CollapseWhitespace(text))
        IN  cleaned = IF w # <<>> /\ w[Len(w)] = ","
                      THEN SubSeq(w, 1, Len(w) - 1)
                      ELSE w

(***************************************************************************)
(* format_transcript.py: parse_transcript                                  *)
(***************************************************************************)
\* The five characters of the speaker-label suffix, written in Latin
\* letters; each element stands for one character of the suffix.
SpeakerSuffix == <<"NO", "A-", "BA", "TA", "--">>

\* the value None of current_speaker
None == <<"None">>

\* truth value of a str-or-None
Truthy(x) == x # None /\ x # <<>>

\* str.split(sep) for a one-character sep
RECURSIVE SplitAt(_, _, _)
SplitAt(s, sep, current) ==
    IF s = <<>> THEN <<current>>
    ELSE IF Head(s) = sep
         THEN <<current>> \o SplitAt(Tail(s), sep, <<>>)
         ELSE SplitAt(Tail(s), sep, Append(current, Head(s)))

Split(s, sep) == SplitAt(s, sep, <<>>)

\* str.replace(old, '') for a non-empty old
RECURSIVE Remove(_, _)
Remove(s, old) ==
    IF s = <<>> THEN <<>>
    ELSE IF StartsWith(s, old)
         THEN Remove(SubSeq(s, Len(old) + 1, Len(s)), old)
         ELSE <<Head(s)>> \o Remove(Tail(s), old)

\* "Save previous utterance if exists" / "Don't forget the last utterance"
SaveUtterance(utts, current_speaker, current_text_parts) ==
    IF Truthy(current_speaker) /\ current_text_parts # <<>>
    THEN LET t == Strip(JoinWith(<<" ">>, current_text_parts))
         IN  IF t # <<>> THEN Append(utts, Utterance(current_speaker, t)) ELSE utts
    ELSE utts

\* the for loop over lines, without the save after the last line
RECURSIVE ParseLines_forget_last(_, _, _, _, _)
ParseLines_forget_last(lines, k, utts, current_speaker, current_text_parts) ==
    IF k > Len(lines)
    THEN utts
    ELSE LET line == Strip(lines[k])
         IN  IF line = <<>>
             THEN ParseLines_forget_last(lines, k + 1, utts, current_speaker,
                                         current_text_parts)
             ELSE IF EndsWith(line, SpeakerSuffix)
                  THEN ParseLines_forget_last(lines, k + 1,
                                  SaveUtterance(utts, current_speaker, current_text_parts),
                                  Remove(line, SpeakerSuffix), <<>>)
                  ELSE IF Truthy(current_speaker)
                       THEN ParseLines_forget_last(lines, k + 1, utts, current_speaker,
                                                   Append(current_text_parts, line))
                       ELSE ParseLines_forget_last(lines, k + 1, utts, current_speaker,
                                                   current_text_parts)

\* the for loop over lines, from line k on, and the save that follows it
RECURSIVE ParseLines(_, _, _, _, _)
ParseLines(lines, k, utts, current_speaker, current_text_parts) ==
    IF k > Len(lines)
    THEN SaveUtterance(utts, current_speaker, current_text_parts)
    ELSE LET line == Strip(lines[k])
         IN  IF line = <<>>
             THEN ParseLines(lines, k + 1, utts, current_speaker, current_text_parts)
             ELSE IF EndsWith(line, SpeakerSuffix)
                  THEN ParseLines(lines, k + 1,
                                  SaveUtterance(utts, current_speaker, current_text_parts),
                                  Remove(line, SpeakerSuffix), <<>>)
                  ELSE IF Truthy(current_speaker)
                       THEN ParseLines(lines, k + 1, utts, current_speaker,
                                       Append(current_text_parts, line))
                       ELSE ParseLines(lines, k + 1, utts, current_speaker,
                                       current_text_parts)

parse_transcript(raw) == ParseLines(Split(Strip(raw), "\n"), 1, <<>>, None, <<>>)

(***************************************************************************)
(* The parse runs: a sequence of (speaker, text lines) blocks is written   *)
(* out in the label convention and parse_transcript is applied to it.      *)
(***************************************************************************)
GoodSpeakerNames == { <<"A">>, <<"B">> }

\* an empty name, a name with a leading blank, a name holding the suffix
OddSpeakerNames ==
    { <<>>, <<" ", "A">>, <<"A">> \o SpeakerSuffix \o <<"B">> }

Block(speaker, lines) == [speaker |-> speaker, lines |-> lines]

\* a line of the written-out transcript: the label of a speaker or a text line
LabelOf(speaker) == [label |-> TRUE, s |-> speaker]
TextLine(line) == [label |-> FALSE, s |-> line]

PlainLines ==
    {LabelOf(sp) : sp \in GoodSpeakerNames} \cup {TextLine(<<"h">>), TextLine(<<"o">>)}

OddLines ==
    {LabelOf(sp) : sp \in OddSpeakerNames}
    \cup {TextLine(<<>>), TextLine(<<" ", "h", " ">>), TextLine(<<"x">> \o SpeakerSuffix)}

\* every sequence of at most MaxRawLines plain lines, and each of them with
\* one line replaced by an odd one
WrittenInputs ==
    SeqsUpTo(PlainLines, MaxRawLines)
    \cup {[ws EXCEPT ![p] = odd] : ws \in SeqsUpTo(PlainLines, MaxRawLines),
                                   p \in 1..MaxRawLines, odd \in OddLines}

\* the blocks a sequence of written lines that starts with a label is made of
RECURSIVE BlocksOf(_, _)
BlocksOf(ws, acc) ==
    IF ws = <<>> THEN acc
    ELSE IF Head(ws).label
         THEN BlocksOf(Tail(ws), Append(acc, Block(Head(ws).s, <<>>)))
         ELSE BlocksOf(Tail(ws),
                       [acc EXCEPT ![Len(acc)].lines = Append(@, Head(ws).s)])

\* the lines of the blocks: a label line, then the block's text lines
RECURSIVE LabelledLines(_)
LabelledLines(bs) ==
    IF bs = <<>> THEN <<>>
    ELSE <<Head(bs).speaker \o SpeakerSuffix>> \o Head(bs).lines
         \o LabelledLines(Tail(bs))

WriteOut(bs) == JoinWith(<<"\n">>, LabelledLines(bs))

InitParse ==
    /\ phase = "raw_text"
    /\ \E ws \in WrittenInputs :
          /\ ws # <<>> => ws[1].label
          /\ blocks = BlocksOf(ws, <<>>)
    /\ raw_text = WriteOut(blocks)
    /\ parsed = <<>>
    /\ MergeIdle /\ TextIdle /\ MainIdle

\* parsed = parse_transcript(raw_text)
Parse ==
    /\ phase = "raw_text"
    /\ parsed' = parse_transcript(raw_text)
    /\ phase' = "parsed"
    /\ UNCHANGED <<blocks, raw_text, mergeVars, textVars, mainVars>>

NextParse == Parse

SpecParse == InitParse /\ [][NextParse]_vars

\* the (speaker, text) pairs the blocks stand for
WrittenPairs(bs) ==
    [k \in DOMAIN bs |-> Utterance(bs[k].speaker, JoinWith(<<" ">>, bs[k].lines))]

Trimmed(x) == Strip(x) = x

Contains(x, part) == Remove(x, part) # x

\* a block whose label line and text lines the parser reads as such
PlainBlock(b) ==
    /\ b.speaker # <<>>
    /\ Trimmed(b.speaker)
    /\ ~ Contains(b.speaker, SpeakerSuffix)
    /\ b.lines # <<>>
    /\ \A k \in DOMAIN b.lines :
          /\ b.lines[k] # <<>>
          /\ Trimmed(b.lines[k])
          /\ ~ EndsWith(b.lines[k], SpeakerSuffix)

\* C5 as stated: parsing the written-out form of any sequence of (speaker,
\* text) pairs returns the same pairs, the text lines of a block joined by
\* single spaces.
C5_ParseLeftInverse ==
    phase = "parsed" => parsed = WrittenPairs(blocks)

\* C5 amended: parsing the written-out form returns the same pairs when
\* every speaker is non-empty, has no leading or trailing whitespace and
\* does not contain the suffix, and every pair has at least one text line,
\* each of them non-blank, without leading or trailing whitespace and not
\* ending in the suffix.
C5_ParseLeftInverseOfPlainBlocks ==
    (phase = "parsed" /\ \A k \in DOMAIN blocks : PlainBlock(blocks[k]))
        => parsed = WrittenPairs(blocks)

\* two plain blocks of one speaker, one of them with two text lines, have
\* been parsed
C5_Witness ==
    /\ phase = "parsed"
    /\ Len(parsed) = 2
    /\ Len(blocks) = 2
    /\ \A k \in DOMAIN blocks : PlainBlock(blocks[k])
    /\ blocks[1].speaker = blocks[2].speaker
    /\ Len(blocks[2].lines) = 2

(***************************************************************************)
(* format_transcript.py and correct_english.py: main                       *)
(***************************************************************************)
Digits == {"0", "1", "2", "3", "4", "5", "6", "7", "8", "9"}

\* str.isdigit()
IsDigit(d) == d # <<>> /\ \A k \in DOMAIN d : d[k] \in Digits

\* the date test without the length
valid_date_format_any_length(d) == IsDigit(d)

\* len(date_str) == 8 and date_str.isdigit()
valid_date_format(d) == Len(d) = 8 /\ IsDigit(d)

Scripts == {"format_transcript", "correct_english"}

\* the file main reads: cambly/raw/<date>.txt or cambly/formatted/<date>.md
InputFile == IF script = "format_transcript" THEN "raw_path" ELSE "formatted_path"

\* the directory listed when the input file is missing
InputDir == IF script = "format_transcript" THEN "raw_dir" ELSE "formatted_dir"

\* the directory main creates and the file it writes
OutputDir == IF script = "format_transcript" THEN "formatted_dir" ELSE "output_dir"
OutputFile == IF script = "format_transcript" THEN "formatted_path" ELSE "output_path"

FsOp(op, path) == [op |-> op, path |-> path]

ArgChars == {"2", "x"}

DateArgs ==
    SeqsUpTo(ArgChars, MaxArgLen)
    \cup { <<"2","0","2","5","1","2","2","2">>, <<"2","0","2","5","1","2","2">> }

InitMain ==
    /\ phase = "argc"
    /\ script \in Scripts
    /\ argv \in {<<>>} \cup {<<a>> : a \in DateArgs}
                \cup {<<a, <<"x">> >> : a \in {<<"2","0","2","5","1","2","2","2">>}}
    /\ fs_ops = <<>>
    /\ api_calls = 0
    /\ stdout = <<>>
    /\ exit_code = -1
    /\ MergeIdle /\ TextIdle /\ ParseIdle

Exit(code, message) ==
    /\ stdout' = Append(stdout, message)
    /\ exit_code' = code
    /\ phase' = "exited"

\* if len(sys.argv) != 2: usage, sys.exit(1)
CheckArgc ==
    /\ phase = "argc"
    /\ IF Len(argv) # 1
       THEN Exit(1, "usage")
       ELSE phase' = "validate" /\ UNCHANGED <<stdout, exit_code>>
    /\ UNCHANGED <<script, argv, fs_ops, api_calls, mergeVars, textVars, parseVars>>

\* "Validate date format"
ValidateDate ==
    /\ phase = "validate"
    /\ IF ~ valid_date_format(argv[1])
       THEN Exit(1, "invalid_date")
       ELSE phase' = "check_input" /\ UNCHANGED <<stdout, exit_code>>
    /\ UNCHANGED <<script, argv, fs_ops, api_calls, mergeVars, textVars, parseVars>>

\* "Check input file exists", and the listing printed when it does not
CheckInput ==
    /\ phase = "check_input"
    /\ \E exists \in BOOLEAN, dir_exists \in BOOLEAN :
          IF exists
          THEN /\ fs_ops' = Append(fs_ops, FsOp("exists", InputFile))
               /\ phase' = "mkdir"
               /\ UNCHANGED <<stdout, exit_code>>
          ELSE /\ fs_ops' = fs_ops \o <<FsOp("exists", InputFile), FsOp("exists", InputDir)>>
                            \o (IF dir_exists THEN <<FsOp("glob", InputDir)>> ELSE <<>>)
               /\ Exit(1, "input_not_found")
    /\ UNCHANGED <<script, argv, api_calls, mergeVars, textVars, parseVars>>

\* "Create output directory if needed"
MakeOutputDir ==
    /\ phase = "mkdir"
    /\ fs_ops' = Append(fs_ops, FsOp("mkdir", OutputDir))
    /\ phase' = "read"
    /\ UNCHANGED <<script, argv, api_calls, stdout, exit_code,
                   mergeVars, textVars, parseVars>>

\* raw_path.read_text / formatted_path.read_text
ReadInput ==
    /\ phase = "read"
    /\ fs_ops' = Append(fs_ops, FsOp("read", InputFile))
    /\ stdout' = Append(stdout, "reading")
    /\ phase' = IF script = "format_transcript" THEN "write" ELSE "load_api_key"
    /\ UNCHANGED <<script, argv, api_calls, exit_code, mergeVars, textVars, parseVars>>

\* load_api_key: the .env file is looked up and read, the key fetched
LoadApiKey ==
    /\ phase = "load_api_key"
    /\ \E env_exists \in BOOLEAN, key_set \in BOOLEAN :
          IF ~ env_exists
          THEN /\ fs_ops' = Append(fs_ops, FsOp("exists", "env_path"))
               /\ Exit(1, "env_not_found")
          ELSE /\ fs_ops' = fs_ops \o <<FsOp("exists", "env_path"), FsOp("read", "env_path")>>
               /\ IF ~ key_set
                  THEN Exit(1, "key_not_found")
                  ELSE phase' = "request" /\ UNCHANGED <<stdout, exit_code>>
    /\ UNCHANGED <<script, argv, api_calls, mergeVars, textVars, parseVars>>

\* get_correction: one request; an APIError ends the process
GetCorrection ==
    /\ phase = "request"
    /\ api_calls' = api_calls + 1
    /\ \E api_error \in BOOLEAN :
          IF api_error
          THEN Exit(1, "api_error")
          ELSE /\ stdout' = Append(stdout, "sending")
               /\ phase' = "write"
               /\ UNCHANGED exit_code
    /\ UNCHANGED <<script, argv, fs_ops, mergeVars, textVars, parseVars>>

\* "Save output"; main returns and the process ends with status 0
WriteOutput ==
    /\ phase = "write"
    /\ fs_ops' = Append(fs_ops, FsOp("write", OutputFile))
    /\ Exit(0, "done")
    /\ UNCHANGED <<script, argv, api_calls, mergeVars, textVars, parseVars>>

NextMain ==
    \/ CheckArgc
    \/ ValidateDate
    \/ CheckInput
    \/ MakeOutputDir
    \/ ReadInput
    \/ LoadApiKey
    \/ GetCorrection
    \/ WriteOutput

SpecMain == InitMain /\ [][NextMain]_vars

\* the single positional argument is not exactly 8 characters, all digits
MalformedDateArgument ==
    /\ Len(argv) = 1
    /\ ~ (Len(argv[1]) = 8 /\ \A k \in DOMAIN argv[1] : argv[1][k] \in Digits)

\* C8: with a malformed date argument main touches no file, loads no
\* credential and sends no request, and when it has ended it has printed
\* the validation error and the exit status is not 0.
C8_MalformedDateNoAccess ==
    MalformedDateArgument =>
        /\ fs_ops = <<>>
        /\ api_calls = 0
        /\ phase \in {"argc", "validate", "exited"}
        /\ phase = "exited" =>
              /\ exit_code # 0
              /\ stdout = <<"invalid_date">>

\* correct_english has ended on a 7-digit argument
C8_Witness ==
    /\ script = "correct_english"
    /\ argv = << <<"2","0","2","5","1","2","2">> >>
    /\ phase = "exited"

====
